---- MODULE Spec2Model ----
(***************************************************************************)
(* State-machine model of the nRF Connect programmer's firmware flow:      *)
(*   src/actions/jprog.js            canWrite, write, writeHex, recover,   *)
(*                                   logDeviceInfo                         *)
(*   src/lib/actions/fileActions.js  parseOneFile, removeFile, closeFiles, *)
(*                                   updateFileRegions and its helpers     *)
(*   src/unnamed/part_000            the file reducer                      *)
(* The MemoryMap operations the code calls (slice, join, contains,         *)
(* overlapMemoryMaps, flattenOverlaps, paginate) belong to the             *)
(* nrf-intel-hex package, which is not among the sources; they are         *)
(* modelled block by block at the places where the code calls them, and    *)
(* paginate as section 4.2 of the specification describes it.  The target  *)
(* reducer is not among the sources either: the memory map of a target     *)
(* that was not read is drawn from UnreadMemMaps.                          *)
(***************************************************************************)
EXTENDS Integers, Sequences, FiniteSets, Bags, TLC

\* ------------------------------------------------------------------------
\* Program constants
\* ------------------------------------------------------------------------

\* jprog.js:297  const uicrAddr = 0x10001000
uicrAddr == 268439552

\* jprog.js:298  const uicrSize = 0x400
uicrSize == 1024

\* jprog.js:301  the byte of the blank page, (new Uint8Array(uicrSize)).fill(0xFF)
padByte == 255

\* fileActions.js:110  const softDeviceMagicStart = 0x1000
softDeviceMagicStart == 4096

\* ------------------------------------------------------------------------
\* Arithmetic helpers
\* ------------------------------------------------------------------------

Max2(a, b) == IF a >= b THEN a ELSE b

Min2(a, b) == IF a <= b THEN a ELSE b

MaxOf(S) == CHOOSE x \in S : \A y \in S : y <= x

MinOf(S) == CHOOSE x \in S : \A y \in S : x <= y

\* Math.ceil(a / b) for a >= 0, b > 0
CeilDiv(a, b) == (a + b - 1) \div b

\* ------------------------------------------------------------------------
\* MemoryMap: a JS Map from start address to Uint8Array, here a function
\* from a finite set of addresses to sequences of bytes.
\* ------------------------------------------------------------------------

EmptyMap == <<>>

\* new MemoryMap([[addr, bytes]])
SingleBlock(addr, bytes) == [a \in {addr} |-> bytes]

\* Map.prototype.set(addr, bytes)
MapSet(m, addr, bytes) ==
    [a \in (DOMAIN m) \cup {addr} |-> IF a = addr THEN bytes ELSE m[a]]

\* (new Uint8Array(n)).fill(b)
Filled(n, b) == [i \in 1..n |-> b]

\* MemoryMap.slice(address, length): the parts of the blocks that fall in
\* [address, address + length), each keyed by where it starts.
SliceKeys(m, address, length) ==
    { k \in DOMAIN m :
        /\ k + Len(m[k]) >= address
        /\ k < address + length
        /\ Min2(address + length, k + Len(m[k])) - Max2(address, k) > 0 }

Slice(m, address, length) ==
    LET keys == SliceKeys(m, address, length)
        starts == { Max2(address, k) : k \in keys }
    IN  [ s \in starts |->
            LET k == CHOOSE k \in keys : Max2(address, k) = s
                sliceEnd == Min2(address + length, k + Len(m[k]))
            IN  SubSeq(m[k], s - k + 1, sliceEnd - k) ]

\* MemoryMap.join(): adjacent blocks are merged into one.
RECURSIVE Chain(_, _)
Chain(m, k) ==
    LET next == k + Len(m[k])
    IN  IF next \in DOMAIN m /\ Len(m[k]) > 0
        THEN m[k] \o Chain(m, next)
        ELSE m[k]

Join(m) ==
    LET heads == { k \in DOMAIN m :
                     ~ \E j \in DOMAIN m : j # k /\ j + Len(m[j]) = k }
    IN  [ k \in heads |-> Chain(m, k) ]

\* MemoryMap.contains(other): every block of other is found, byte for
\* byte, in this.slice(addr, length).join().get(addr).
Contains(m, other) ==
    \A addr \in DOMAIN other :
        LET length == Len(other[addr])
            joined == Join(Slice(m, addr, length))
        IN  /\ addr \in DOMAIN joined
            /\ Len(joined[addr]) = length
            /\ \A i \in 1..length : other[addr][i] = joined[addr][i]

\* MemoryMap.overlapMemoryMaps(memMaps): memMaps is a sequence of
\* <<id, MemoryMap>>; the result maps every cut address to the sequence of
\* <<id, bytes>> of the maps that hold data there, in the order of memMaps.
Cuts(memMaps) ==
    UNION { UNION { {k, k + Len(memMaps[i][2][k])} : k \in DOMAIN memMaps[i][2] }
            : i \in DOMAIN memMaps }

NextCut(cuts, cut) == MinOf({ c \in cuts : c > cut })

\* the block of map i with the highest address that is <= cut, or -1
BlockAddrAt(blocks, cut) ==
    IF \E k \in DOMAIN blocks : k <= cut
    THEN MaxOf({ k \in DOMAIN blocks : k <= cut })
    ELSE -1

HasDataAt(blocks, cut) ==
    LET blockAddr == BlockAddrAt(blocks, cut)
    IN  blockAddr # -1 /\ cut - blockAddr < Len(blocks[blockAddr])

TuplesAt(memMaps, cut, nextCut) ==
    LET idxs == SelectSeq([i \in 1..Len(memMaps) |-> i],
                          LAMBDA i : HasDataAt(memMaps[i][2], cut))
    IN  [ j \in 1..Len(idxs) |->
            LET blocks == memMaps[idxs[j]][2]
                blockAddr == BlockAddrAt(blocks, cut)
            IN  << memMaps[idxs[j]][1],
                   SubSeq(blocks[blockAddr], cut - blockAddr + 1,
                          Min2(nextCut - blockAddr, Len(blocks[blockAddr]))) >> ]

overlapMemoryMaps(memMaps) ==
    LET cuts == Cuts(memMaps)
        inner == { c \in cuts : \E d \in cuts : d > c }
        live == { c \in inner :
                    \E i \in DOMAIN memMaps : HasDataAt(memMaps[i][2], c) }
    IN  [ c \in live |-> TuplesAt(memMaps, c, NextCut(cuts, c)) ]

\* A flattening in which the first tuple of every cut wins.
FlattenFirstWins(overlaps) ==
    [ c \in DOMAIN overlaps |-> overlaps[c][1][2] ]

\* MemoryMap.flattenOverlaps(overlaps): the last tuple of every cut wins.
flattenOverlaps(overlaps) ==
    [ c \in DOMAIN overlaps |-> overlaps[c][Len(overlaps[c])][2] ]

\* A JS variable that holds no number yet (let blEndAddress;): addresses
\* and sizes are never negative.
Undefined == -1

\* The byte a map holds at address a, or NoByte.
NoByte == Undefined

ByteAt(m, a) ==
    IF \E k \in DOMAIN m : k <= a /\ a < k + Len(m[k])
    THEN LET k == CHOOSE k \in DOMAIN m : k <= a /\ a < k + Len(m[k])
         IN  m[k][a - k + 1]
    ELSE NoByte

\* The addresses at which a map holds a byte.
Addrs(m) == UNION { k..(k + Len(m[k]) - 1) : k \in DOMAIN m }

\* MemoryMap.paginate(pageSize), as section 4.2 describes it: the map is
\* re-bucketed into blocks cut at the multiples of pageSize; an address of
\* a touched page that holds no data gets no byte, so a block is a run of
\* data inside one page.
BlockStarts(m, pageSize) ==
    { a \in Addrs(m) : a % pageSize = 0 \/ (a - 1) \notin Addrs(m) }

BlockEnd(m, pageSize, start) ==
    MinOf({ a \in Addrs(m) :
              /\ a >= start
              /\ ((a + 1) % pageSize = 0 \/ (a + 1) \notin Addrs(m)) })

paginate(m, pageSize) ==
    [ start \in BlockStarts(m, pageSize) |->
        [ i \in 1..(BlockEnd(m, pageSize, start) - start + 1) |->
            ByteAt(m, start + i - 1) ] ]

\* ------------------------------------------------------------------------
\* Regions (Immutable Records of util/regions): name, startAddress,
\* regionSize, color.  The color constants follow the names.
\* ------------------------------------------------------------------------

RegionNames == {"NONE", "APPLICATION", "SOFTDEVICE", "BOOTLOADER"}

Region(name, startAddress, regionSize) ==
    [name |-> name, startAddress |-> startAddress,
     regionSize |-> regionSize, color |-> name]

\* List.find(pred): index of the first element that satisfies it, 0 if none
FindIndex(list, Pred(_)) ==
    IF \E i \in 1..Len(list) : Pred(list[i])
    THEN MinOf({ i \in 1..Len(list) : Pred(list[i]) })
    ELSE 0

\* List.indexOf(value): value equality of Records; 0 if absent
IndexOf(list, r) == FindIndex(list, LAMBDA x : x = r)

\* List.remove(index) for an index that exists
RemoveAt(list, i) ==
    [ j \in 1..(Len(list) - 1) |-> IF j < i THEN list[j] ELSE list[j + 1] ]

\* fileRegions.forEach(r => { if (pred(r)) fileRegions =
\*     fileRegions.remove(fileRegions.indexOf(r)) }): the iteration runs
\* over the list as it was, the removal acts on the current list.
RECURSIVE RemoveEach(_, _, _, _)
RemoveEach(orig, cur, i, doomed) ==
    IF i > Len(orig) THEN cur
    ELSE IF orig[i] \in doomed /\ IndexOf(cur, orig[i]) > 0
         THEN RemoveEach(orig, RemoveAt(cur, IndexOf(cur, orig[i])), i + 1, doomed)
         ELSE RemoveEach(orig, cur, i + 1, doomed)

\* the elements of a list that satisfy a predicate
Matching(list, Pred(_)) == { list[i] : i \in { j \in 1..Len(list) : Pred(list[j]) } }

\* A variant that stops at the first gap above the bootloader.
EarlyBlEndAddress(list, i, blRegion, romSize, acc) ==
    LET hits == { j \in 1..Len(list) :
                    /\ list[j].name = "NONE"
                    /\ list[j].startAddress > blRegion.startAddress
                    /\ list[j].startAddress + list[j].regionSize < romSize }
    IN  IF hits = {} THEN Undefined
        ELSE list[MinOf(hits)].startAddress + list[MinOf(hits)].regionSize

\* fileActions.js:215-223: the running blEndAddress of the forEach
RECURSIVE BlEndAddress(_, _, _, _, _)
BlEndAddress(list, i, blRegion, romSize, acc) ==
    IF i > Len(list) THEN acc
    ELSE LET r == list[i]
             hit == /\ r.name = "NONE"
                    /\ r.startAddress > blRegion.startAddress
                    /\ r.startAddress + r.regionSize < romSize
                    /\ (acc = Undefined \/ acc = 0 \/ acc <= r.startAddress)
         IN  BlEndAddress(list, i + 1, blRegion, romSize,
                          IF hit THEN r.startAddress + r.regionSize ELSE acc)

\* fileActions.js:205-238 updateFileBlRegion: the region list the state
\* holds when it returns.
updateFileBlRegion(fileRegions, deviceInfo) ==
    LET blIndex == FindIndex(fileRegions, LAMBDA r : r.name = "BOOTLOADER")
    IN  IF blIndex = 0 THEN fileRegions
        ELSE
        LET blRegion == fileRegions[blIndex]
            blStartAddress == blRegion.startAddress
            blEndAddress == BlEndAddress(fileRegions, 1, blRegion,
                                         deviceInfo.romSize, Undefined)
        IN  IF blEndAddress = Undefined THEN fileRegions
            ELSE
            LET removed == RemoveEach(fileRegions, fileRegions, 1,
                           Matching(fileRegions, LAMBDA r : r.name = "NONE"))
                blRegionIndex == IndexOf(removed, blRegion)
            IN  [ removed EXCEPT ![blRegionIndex] =
                    [ blRegion EXCEPT !.regionSize = blEndAddress - blStartAddress ] ]

\* fileActions.js:165-180: appEndAddress and appStartAddress of the forEach
RECURSIVE AppEndAddress(_, _, _, _)
AppEndAddress(list, i, targetBootloaderIndex, targetRegions) ==
    IF i = 0 THEN Undefined
    ELSE LET acc == AppEndAddress(list, i - 1, targetBootloaderIndex, targetRegions)
             r == list[i]
             hit == /\ targetBootloaderIndex > 0
                    /\ r.name = "NONE"
                    /\ r.startAddress < targetRegions[targetBootloaderIndex].startAddress
                    /\ (acc = Undefined \/ acc = 0 \/ acc <= r.startAddress)
         IN  IF hit THEN r.startAddress + r.regionSize ELSE acc

AppStartAddress(list) ==
    LET apps == { i \in 1..Len(list) : list[i].name = "APPLICATION" }
    IN  IF apps = {} THEN Undefined ELSE list[MaxOf(apps)].startAddress

\* fileActions.js:159-170: the names of the checklist found in the list
DetectedRegionNames(list) ==
    { list[i].name : i \in 1..Len(list) }
        \cap {"APPLICATION", "SOFTDEVICE", "BOOTLOADER"}

\* The inference with the SoftDevice's end rounded down to a page.
InferApplicationRoundedDown(fileRegions, targetRegions, pageSize) ==
    LET fileSd == FindIndex(fileRegions, LAMBDA r : r.name = "SOFTDEVICE")
        targetSd == FindIndex(targetRegions, LAMBDA r : r.name = "SOFTDEVICE")
    IN  IF fileSd = 0 /\ targetSd > 0
        THEN LET softDeviceEnd == targetRegions[targetSd].startAddress
                                    + targetRegions[targetSd].regionSize
                 first == FindIndex(fileRegions, LAMBDA r :
                     r.startAddress = (softDeviceEnd \div pageSize) * pageSize)
                 second == FindIndex(fileRegions, LAMBDA r :
                     r.startAddress = ((softDeviceEnd \div pageSize) + 1) * pageSize)
                 appRegionIndex == IF first > 0 THEN first ELSE second
             IN  IF appRegionIndex > 0
                 THEN [ fileRegions EXCEPT ![appRegionIndex] =
                          [ @ EXCEPT !.name = "APPLICATION",
                                     !.color = "APPLICATION" ] ]
                 ELSE fileRegions
        ELSE fileRegions

\* fileActions.js:131-145: label the region on top of the target's SoftDevice
InferApplication(fileRegions, targetRegions, pageSize) ==
    LET fileSd == FindIndex(fileRegions, LAMBDA r : r.name = "SOFTDEVICE")
        targetSd == FindIndex(targetRegions, LAMBDA r : r.name = "SOFTDEVICE")
    IN  IF fileSd = 0 /\ targetSd > 0
        THEN LET softDeviceEnd == targetRegions[targetSd].startAddress
                                    + targetRegions[targetSd].regionSize
                 first == FindIndex(fileRegions, LAMBDA r :
                     r.startAddress = CeilDiv(softDeviceEnd, pageSize) * pageSize)
                 second == FindIndex(fileRegions, LAMBDA r :
                     r.startAddress = (CeilDiv(softDeviceEnd, pageSize) + 1) * pageSize)
                 appRegionIndex == IF first > 0 THEN first ELSE second
             IN  IF appRegionIndex > 0
                 THEN [ fileRegions EXCEPT ![appRegionIndex] =
                          [ @ EXCEPT !.name = "APPLICATION",
                                     !.color = "APPLICATION" ] ]
                 ELSE fileRegions
        ELSE fileRegions

\* fileActions.js:147-157: drop the Application label when nobody has a
\* SoftDevice
RemoveApplicationLabel(fileRegions0, fileRegions, targetRegions) ==
    LET fileSd == FindIndex(fileRegions0, LAMBDA r : r.name = "SOFTDEVICE")
        targetSd == FindIndex(targetRegions, LAMBDA r : r.name = "SOFTDEVICE")
        appRegionIndex == FindIndex(fileRegions, LAMBDA r : r.name = "APPLICATION")
    IN  IF fileSd = 0 /\ targetSd = 0 /\ appRegionIndex > 0
        THEN IF fileRegions[appRegionIndex].startAddress # softDeviceMagicStart
             THEN [ fileRegions EXCEPT ![appRegionIndex] =
                      [ @ EXCEPT !.name = "NONE", !.color = "NONE" ] ]
             ELSE fileRegions
        ELSE fileRegions

\* fileActions.js:183-199: fold the NONE regions below the target's
\* bootloader into the Application region
MergeApplication(fileRegions, targetRegions) ==
    LET targetBl == FindIndex(targetRegions, LAMBDA r : r.name = "BOOTLOADER")
        appStartAddress == AppStartAddress(fileRegions)
        appEndAddress == AppEndAddress(fileRegions, Len(fileRegions),
                                       targetBl, targetRegions)
    IN  IF targetBl > 0 /\ appStartAddress # Undefined /\ appEndAddress # Undefined
        THEN LET removed == RemoveEach(fileRegions, fileRegions, 1,
                     Matching(fileRegions, LAMBDA r :
                         /\ r.name = "NONE"
                         /\ r.startAddress < targetRegions[targetBl].startAddress))
                 appRegionIndex == FindIndex(removed, LAMBDA r : r.name = "APPLICATION")
             IN  [ removed EXCEPT ![appRegionIndex] =
                     [ @ EXCEPT !.regionSize = appEndAddress - appStartAddress,
                                !.color = "APPLICATION" ] ]
        ELSE fileRegions

\* A variant that collects the names before the labels are settled.
NamesBeforeLabelling(fileRegions, targetRegions, deviceInfo) ==
    LET inferred == InferApplication(fileRegions, targetRegions, deviceInfo.pageSize)
        relabeled == RemoveApplicationLabel(fileRegions, inferred, targetRegions)
    IN  [ regions |-> MergeApplication(relabeled, targetRegions),
          detectedRegionNames |-> DetectedRegionNames(fileRegions) ]

\* fileActions.js:108-201 updateFileAppRegions: the region list and the
\* detected names the state holds when it returns.
updateFileAppRegions(fileRegions, targetRegions, deviceInfo) ==
    LET inferred == InferApplication(fileRegions, targetRegions, deviceInfo.pageSize)
        relabeled == RemoveApplicationLabel(fileRegions, inferred, targetRegions)
    IN  [ regions |-> MergeApplication(relabeled, targetRegions),
          detectedRegionNames |-> DetectedRegionNames(relabeled) ]

\* ------------------------------------------------------------------------
\* State
\* ------------------------------------------------------------------------

VARIABLES
    loaded,               \* file.loaded: path -> entry of a parsed file
    memMaps,              \* file.memMaps: sequence of <<path, MemoryMap>>
    regions,              \* file.regions
    detectedRegionNames,  \* file.detectedRegionNames
    target,               \* app.target
    parses,               \* path -> the bag of closures of its parseOneFile calls in flight
    probe,                \* bag of the positions of logDeviceInfo's promise chains
    w,                    \* write() invocation -> its position and closure
    rpc,                  \* position inside updateFileRegions (SpecRegions)
    classified,           \* the regions const of updateFileRegions
    disk,                 \* path -> the file on disk, as stat and readFile see it
    cu,                   \* write() invocation -> its checkUpToDateFiles
    behaviour,            \* persistentStore 'behaviour-when-files-not-up-to-date'
    refresh,              \* the promise of a refreshAllFiles call of its own
    progress              \* WRITE_PROGRESS_START awaiting its FINISHED; recover()

vars == << loaded, memMaps, regions, detectedRegionNames, target, parses,
           probe, w, rpc, classified, disk, cu, behaviour, refresh, progress >>

reloadVars == << disk, cu, behaviour, refresh >>

fileVars == << loaded, memMaps, regions, detectedRegionNames >>

\* the mtime a file on disk can reach
MaxMtime == 2

\* the parseOneFile calls of one path that wait for their file at a time
MaxPending == 2

\* the write() invocations under way at a time
MaxWrites == 2

\* recover() calls whose nrfjprog.recover has not called back
MaxRecovers == 2

Writes == 1..MaxWrites

\* ------------------------------------------------------------------------
\* Inputs: the files on disk and what the probe reads from the device
\* ------------------------------------------------------------------------

Paths == {"a.hex", "b.hex"}

\* What MemoryMap.fromHex yields for the contents a file may have.
\* a.hex: code, with or without a UICR byte; b.hex: code that overlaps
\* a.hex's, another value for the same UICR byte, and two bytes across the
\* end of the UICR page (an erased byte in its last address, data above).
FileImages(path) ==
    IF path = "a.hex"
    THEN { (4096 :> <<1, 2, 3>>) @@ (uicrAddr + 4 :> <<18>>),
           (4096 :> <<1, 2, 3>>) }
    ELSE { (4098 :> <<7, 8>>) @@ (uicrAddr + 4 :> <<52>>)
             @@ (uicrAddr + uicrSize - 1 :> <<padByte, 102>>) }

\* devInfo.codePageSize
PageSizes == {4, 1024}

\* The UICR bytes nrfjprog.read returns: erased, or one byte set as in
\* a.hex.
UicrReads ==
    { Filled(uicrSize, padByte),
      [ Filled(uicrSize, padByte) EXCEPT ![5] = 18 ] }

\* The flash blocks MemoryMap.fromPaddedUint8Array keeps of the code read
FlashReads == { (0 :> <<16, 32>>) }

\* ------------------------------------------------------------------------
\* Target: jprog.js logDeviceInfo and the target part of the state
\* ------------------------------------------------------------------------

\* A value that is a MemoryMap, and the value undefined
MemoryMap(blocks) == [isMemoryMap |-> TRUE, blocks |-> blocks]

NoMemoryMap == [isMemoryMap |-> FALSE, blocks |-> EmptyMap]

NoDeviceInfo == [romSize |-> 0, pageSize |-> 0]

\* The memory map of a target that was not read.  The reducer that sets
\* it is not among the sources and the specification does not say what it
\* is: an empty MemoryMap, or no MemoryMap at all.
UnreadMemMaps == { MemoryMap(EmptyMap), NoMemoryMap }

\* The target state before a device is selected
InitialTarget(memMap) ==
    [ serialNumber |-> 0, pageSize |-> 0, memMap |-> memMap,
      regions |-> <<>>, deviceInfo |-> NoDeviceInfo ]

\* memRegions(memMap, uicrAddress): the regions of the device's own image.
\* The devices read here hold a SoftDevice in the first page of flash.
memRegions(memMap) ==
    IF 0 \in DOMAIN memMap THEN << Region("SOFTDEVICE", 0, 4096) >> ELSE <<>>

\* jprog.js:105-135 getDeviceMemMap: what the promise resolves with
getDeviceMemMap(flashBlocks, uicrAddress, uicrBytes) ==
    LET memMap == MapSet(flashBlocks, uicrAddress, uicrBytes)
    IN  [ memMap |-> MemoryMap(memMap), regions |-> memRegions(memMap) ]

\* ------------------------------------------------------------------------
\* canWrite and the payload of write()
\* ------------------------------------------------------------------------

Flattened(fileMemMaps) == flattenOverlaps(overlapMemoryMaps(fileMemMaps))

\* new MemoryMap([[uicrAddr, (new Uint8Array(uicrSize)).fill(0xFF)]])
blankUicr == SingleBlock(uicrAddr, Filled(uicrSize, padByte))

\* canWrite without the shortcut for an erased UICR.
CanWriteNoBlankCheck(appState) ==
    IF ~ appState.target.memMap.isMemoryMap THEN "throws"
    ELSE IF ~ Contains(appState.target.memMap.blocks,
                       Slice(Flattened(appState.file.memMaps), uicrAddr, uicrSize))
         THEN "false"
         ELSE "true"

\* canWrite that slices up to an end address instead of by length.
CanWriteSliceToEnd(appState) ==
    IF ~ appState.target.memMap.isMemoryMap THEN "throws"
    ELSE IF Contains(appState.target.memMap.blocks, blankUicr) THEN "true"
    ELSE IF ~ Contains(appState.target.memMap.blocks,
                       Slice(Flattened(appState.file.memMaps), uicrAddr,
                             uicrAddr + uicrSize))
         THEN "false"
         ELSE "true"

\* jprog.js:291-323 canWrite: "true", "false", or "throws" when
\* target.memMap is not an object with a contains method.
canWrite(appState) ==
    IF ~ appState.target.memMap.isMemoryMap THEN "throws"
    ELSE IF Contains(appState.target.memMap.blocks, blankUicr) THEN "true"
    ELSE LET flattenedFiles == Flattened(appState.file.memMaps)
             uicrUpdates == Slice(flattenedFiles, uicrAddr, uicrSize)
         IN  IF ~ Contains(appState.target.memMap.blocks, uicrUpdates)
             THEN "false"
             ELSE "true"

\* The pages without the cut below the UICR.
PagesUncut(appState) ==
    paginate(Flattened(appState.file.memMaps), appState.target.pageSize)

\* The pages cut below the UICR whatever the target holds.
PagesAlwaysCut(appState) ==
    Slice(paginate(Flattened(appState.file.memMaps), appState.target.pageSize),
          0, uicrAddr)

\* jprog.js:353-365: the pages write() hands to writeHex
Pages(appState) ==
    LET pages == paginate(Flattened(appState.file.memMaps), appState.target.pageSize)
    IN  IF ~ Contains(appState.target.memMap.blocks, blankUicr)
        THEN Slice(pages, 0, uicrAddr)
        ELSE pages

\* ------------------------------------------------------------------------
\* File regions: fileActions.js updateFileRegions
\* ------------------------------------------------------------------------

\* the keys of a Map, ascending
RECURSIVE SortedSeq(_)
SortedSeq(S) ==
    IF S = {} THEN <<>> ELSE <<MinOf(S)>> \o SortedSeq(S \ {MinOf(S)})

\* getFileRegions(memMaps, deviceInfo): one region per overlap, in address
\* order; none of the images read here carries a SoftDevice or a
\* bootloader signature, so every region starts as NONE.
getFileRegions(fileMemMaps) ==
    LET overlaps == overlapMemoryMaps(fileMemMaps)
        keys == SortedSeq(DOMAIN overlaps)
    IN  [ i \in 1..Len(keys) |->
            Region("NONE", keys[i], Len(overlaps[keys[i]][1][2])) ]

\* fileActions.js:240-271 updateFileRegions: FILE_REGIONS_KNOWN, then
\* updateFileBlRegion, then updateFileAppRegions.
updateFileRegions(fileMemMaps, tgt) ==
    updateFileAppRegions(
        updateFileBlRegion(getFileRegions(fileMemMaps), tgt.deviceInfo),
        tgt.regions, tgt.deviceInfo)

\* ------------------------------------------------------------------------
\* Initial state
\* ------------------------------------------------------------------------

\* no parseOneFile call of a path waits for its file
NoParse == EmptyBag

\* fileActions.js:362 loadTime: new Date(). Every load of this model
\* happens at time 1; the files on disk change before (mtime 0), in the
\* same millisecond (1) or later.
LoadTime == 1

\* no checkUpToDateFiles is running
IdleCheck ==
    [ pc |-> "idle", loaded |-> <<>>, outstanding |-> {}, filenames |-> {},
      thrown |-> {}, newer |-> <<>>, button |-> Undefined ]

\* the outcome of checkUpToDateFiles is left open
OpenCheck == [ IdleCheck EXCEPT !.pc = "off" ]

IdleRefresh == [ pc |-> "idle", newer |-> <<>> ]

\* no WRITE_PROGRESS_START without a WRITE_PROGRESS_FINISHED after it, no
\* call of nrfjprog.recover that waits for its finish callback
IdleProgress == [ started |-> FALSE, recover |-> 0 ]

IdleWrite ==
    [ pc |-> "idle", verdict |-> "none", memMaps |-> <<>>,
      target |-> InitialTarget(NoMemoryMap), pages |-> EmptyMap ]

\* no logDeviceInfo chain waits for the probe
NoProbe == EmptyBag

Init ==
    /\ loaded = <<>>
    /\ memMaps = <<>>
    /\ regions = <<>>
    /\ detectedRegionNames = {}
    /\ \E memMap \in UnreadMemMaps : target = InitialTarget(memMap)
    /\ parses = [p \in Paths |-> NoParse]
    /\ probe = NoProbe
    /\ w = [i \in Writes |-> IdleWrite]
    /\ rpc = "off"
    /\ classified = <<>>
    /\ disk = <<>>
    /\ cu = [i \in Writes |-> OpenCheck]
    /\ behaviour = "unset"
    /\ refresh = IdleRefresh
    /\ progress = IdleProgress

\* No step of another handler runs while a write() is between two of its
\* synchronous statements.
Interleavable == (\A i \in Writes : w[i].pc # "canWrite") /\ rpc = "off"

\* The reactions of a settled promise run before the next callback or
\* user event: nothing else runs between the settling of
\* checkUpToDateFiles and the .then or .catch of write().  Once the
\* reaction has run (the probe programs, or write() is over) none is due.
NoReactionDue ==
    \A i \in Writes :
       ~ (w[i].pc = "checkUpToDateFiles" /\ cu[i].pc \in {"resolved", "rejected"})

\* ------------------------------------------------------------------------
\* File actions
\* ------------------------------------------------------------------------

\* fileActions.js:316-323 parseOneFile up to the stat call: the closure
\* keeps the loaded and memMaps it read.
ParseOneFile(filePath) ==
    /\ Interleavable
    /\ filePath \notin DOMAIN loaded
    /\ parses' = [parses EXCEPT ![filePath] =
                    @ (+) SetToBag({[loaded |-> loaded, memMaps |-> memMaps]})]
    /\ UNCHANGED << fileVars, target, probe, w, rpc, classified, progress, reloadVars >>

\* fileActions.js:324-349: stat, readFile or fromHex failed
ParseOneFileError(filePath, closure) ==
    /\ Interleavable
    /\ BagIn(closure, parses[filePath])
    /\ parses' = [parses EXCEPT ![filePath] = @ (-) SetToBag({closure})]
    /\ UNCHANGED << fileVars, target, probe, w, rpc, classified, progress, reloadVars >>

\* A read callback that appends to the memMaps of the state as it is now,
\* next to the loaded of its closure.
ReadAppendingToCurrentMaps(filePath, closure, memMap) ==
    /\ Interleavable
    /\ BagIn(closure, parses[filePath])
    /\ LET old == closure.loaded
           newLoaded == [ q \in (DOMAIN old) \cup {filePath} |->
                            IF q = filePath
                            THEN [memMap |-> memMap, loadTime |-> LoadTime]
                            ELSE old[q] ]
           newMemMaps == Append(memMaps, <<filePath, memMap>>)
           updated == updateFileRegions(newMemMaps, target)
       IN  /\ loaded' = newLoaded
           /\ memMaps' = newMemMaps
           /\ regions' = updated.regions
           /\ detectedRegionNames' = updated.detectedRegionNames
    /\ parses' = [parses EXCEPT ![filePath] = @ (-) SetToBag({closure})]
    /\ UNCHANGED << target, probe, w, rpc, classified, progress, reloadVars >>

\* fileActions.js:331-374 and the reducer's FILE_PARSE: the read callback
ParseOneFileRead(filePath, closure, memMap) ==
    /\ Interleavable
    /\ BagIn(closure, parses[filePath])
    /\ LET old == closure.loaded
           newLoaded == [ q \in (DOMAIN old) \cup {filePath} |->
                            IF q = filePath
                            THEN [memMap |-> memMap, loadTime |-> LoadTime]
                            ELSE old[q] ]
           newMemMaps == Append(closure.memMaps, <<filePath, memMap>>)
           updated == updateFileRegions(newMemMaps, target)
       IN  /\ loaded' = newLoaded
           /\ memMaps' = newMemMaps
           /\ regions' = updated.regions
           /\ detectedRegionNames' = updated.detectedRegionNames
    /\ parses' = [parses EXCEPT ![filePath] = @ (-) SetToBag({closure})]
    /\ UNCHANGED << target, probe, w, rpc, classified, progress, reloadVars >>

\* fileActions.js:273-284 removeFile, of a loaded path or of any other
RemoveFile(filePath) ==
    /\ Interleavable
    /\ LET newLoaded == [ q \in (DOMAIN loaded) \ {filePath} |-> loaded[q] ]
           newMemMaps == SelectSeq(memMaps, LAMBDA element : element[1] # filePath)
           updated == updateFileRegions(newMemMaps, target)
       IN  /\ loaded' = newLoaded
           /\ memMaps' = newMemMaps
           /\ regions' = updated.regions
           /\ detectedRegionNames' = updated.detectedRegionNames
    /\ UNCHANGED << target, parses, probe, w, rpc, classified, progress, reloadVars >>

\* fileActions.js:240-271 updateFileRegions, dispatched on its own: the
\* regions of the loaded files for the target as it is now
DispatchUpdateFileRegions ==
    /\ Interleavable
    /\ LET updated == updateFileRegions(memMaps, target)
       IN  /\ regions' = updated.regions
           /\ detectedRegionNames' = updated.detectedRegionNames
    /\ UNCHANGED << loaded, memMaps, target, parses, probe, w, rpc, classified,
                    progress, reloadVars >>

\* fileActions.js:286-293 closeFiles and the reducer's FILES_EMPTY
CloseFiles ==
    /\ Interleavable
    /\ LET updated == updateFileRegions(<<>>, target)
       IN  /\ loaded' = <<>>
           /\ memMaps' = <<>>
           /\ regions' = updated.regions
           /\ detectedRegionNames' = updated.detectedRegionNames
    /\ UNCHANGED << target, parses, probe, w, rpc, classified, progress, reloadVars >>

\* ------------------------------------------------------------------------
\* Target actions
\* ------------------------------------------------------------------------

\* A devkit is connected: the serial number is stored and logDeviceInfo
\* (jprog.js:140-142) asks the probe for the device info, whatever other
\* chain is under way.
LogDeviceInfo ==
    /\ Interleavable
    /\ target' = [target EXCEPT !.serialNumber = 1]
    /\ probe' = probe (+) SetToBag({"getDeviceInfo"})
    /\ UNCHANGED << fileVars, parses, w, rpc, classified, progress, reloadVars >>

\* jprog.js:143-160: getDeviceInfo resolved, TARGET_SIZE_KNOWN
TargetSizeKnown(codePageSize) ==
    /\ Interleavable
    /\ BagIn("getDeviceInfo", probe)
    /\ target' = [target EXCEPT !.pageSize = codePageSize,
                                !.deviceInfo = [romSize |-> 524288,
                                                pageSize |-> codePageSize]]
    /\ probe' = (probe (-) SetToBag({"getDeviceInfo"}))
                   (+) SetToBag({"getDeviceMemMap"})
    /\ UNCHANGED << fileVars, parses, w, rpc, classified, progress, reloadVars >>

\* jprog.js:161-171: getDeviceMemMap resolved, TARGET_CONTENTS_KNOWN
TargetContentsKnown(flashBlocks, uicrBytes) ==
    /\ Interleavable
    /\ BagIn("getDeviceMemMap", probe)
    /\ LET contents == getDeviceMemMap(flashBlocks, uicrAddr, uicrBytes)
       IN  target' = [target EXCEPT !.memMap = contents.memMap,
                                    !.regions = contents.regions]
    /\ probe' = probe (-) SetToBag({"getDeviceMemMap"})
    /\ UNCHANGED << fileVars, parses, w, rpc, classified, progress, reloadVars >>

\* jprog.js:78-88, 108-114, 173-175: the probe reported an error
ProbeError ==
    /\ Interleavable
    /\ \E position \in BagToSet(probe) :
          probe' = probe (-) SetToBag({position})
    /\ UNCHANGED << fileVars, target, parses, w, rpc, classified, progress, reloadVars >>

\* ------------------------------------------------------------------------
\* fileActions.js refreshAllFiles and checkUpToDateFiles
\* ------------------------------------------------------------------------

\* fileActions.js:404-408: the loaded files that statSync finds and whose
\* loadTime is older than the mtime on disk
NewerOnDisk ==
    { filePath \in DOMAIN loaded :
        /\ disk[filePath].exists
        /\ loaded[filePath].loadTime < disk[filePath].mtime }

\* fileActions.js:409 dispatch(parseOneFile(filePath)) for each of them:
\* parseOneFile (fileActions.js:318-321) returns at once for a path that
\* is in loaded, and starts a read for any other.
ParsesAfterRefresh ==
    [ q \in Paths |->
        IF q \in NewerOnDisk /\ q \notin DOMAIN loaded
        THEN parses[q] (+) SetToBag({[loaded |-> loaded, memMaps |-> memMaps]})
        ELSE parses[q] ]

\* what refreshAllFiles found newer on disk, as it is there
SeenNewer == [ q \in NewerOnDisk |-> disk[q] ]

\* fileActions.js:426-432 checkUpToDateFiles up to the stat calls
checkUpToDateFiles(i) ==
    IF cu[i].pc = "off" THEN cu[i]
    ELSE [ IdleCheck EXCEPT
             !.pc = IF DOMAIN loaded = {} THEN "resolved" ELSE "stat",
             !.loaded = loaded,
             !.outstanding = DOMAIN loaded ]

\* the check is over with the write() that ran it
CheckDone(i) == IF cu[i].pc = "off" THEN cu[i] ELSE IdleCheck

\* fileActions.js:442-458: what the .then chain does with the changed
\* files
AfterStats(filenames) ==
    IF filenames = {} THEN "resolved"
    ELSE IF behaviour = "ignore" THEN "resolved"
    ELSE IF behaviour = "reload" THEN "refreshAllFiles"
    ELSE "dialog"

\* fileActions.js:433-441: the callback of one stat call.  With an error
\* stats is undefined and stats.mtime throws in the callback: the promise
\* of that file is never resolved.
StatCallback(i, filePath) ==
    /\ Interleavable
    /\ cu[i].pc = "stat"
    /\ filePath \in cu[i].outstanding
    /\ IF ~ disk[filePath].exists
       THEN /\ cu' = [cu EXCEPT ![i].outstanding = @ \ {filePath},
                                ![i].thrown = @ \cup {filePath}]
            /\ UNCHANGED parses
       ELSE LET filenames ==
                    IF cu[i].loaded[filePath].loadTime < disk[filePath].mtime
                    THEN cu[i].filenames \cup {filePath}
                    ELSE cu[i].filenames
                outstanding == cu[i].outstanding \ {filePath}
                next == IF outstanding = {} /\ cu[i].thrown = {}
                        THEN AfterStats(filenames)
                        ELSE "stat"
            IN  /\ cu' = [cu EXCEPT
                            ![i].outstanding = outstanding,
                            ![i].filenames = filenames,
                            ![i].pc = IF next = "refreshAllFiles"
                                      THEN "resolved" ELSE next,
                            ![i].newer = IF next = "refreshAllFiles"
                                         THEN SeenNewer ELSE @]
                /\ parses' = IF next = "refreshAllFiles"
                             THEN ParsesAfterRefresh ELSE parses
    /\ UNCHANGED << fileVars, target, probe, w, rpc, classified, progress,
                    disk, behaviour, refresh >>

\* A dialog whose every button lets the write go on
ButtonAlwaysResolves(button) == "resolved"

\* fileActions.js:472-488: 'Use old version' (0) resolves, 'Reload all
\* files and proceed' (1) resolves after refreshAllFiles, 'Cancel' (2)
\* rejects
ButtonSettles(button) == IF button \in {0, 1} THEN "resolved" ELSE "rejected"

\* fileActions.js:460-489: the callback of the message box
DialogButton(i, button, doNotAskAgain) ==
    /\ Interleavable
    /\ cu[i].pc = "dialog"
    /\ behaviour' = IF doNotAskAgain
                    THEN (IF button = 0 THEN "ignore" ELSE "reload")
                    ELSE behaviour
    /\ cu' = [cu EXCEPT
                ![i].button = button,
                ![i].pc = ButtonSettles(button),
                ![i].newer = IF button = 1 THEN SeenNewer ELSE @]
    /\ parses' = IF button = 1 THEN ParsesAfterRefresh ELSE parses
    /\ UNCHANGED << fileVars, target, probe, w, rpc, classified, progress,
                    disk, refresh >>

\* fileActions.js:402-419 refreshAllFiles, called on its own: the promise
\* resolves when every parseOneFile promise has, which is when the calls
\* return.
RefreshAllFiles ==
    /\ Interleavable
    /\ NoReactionDue
    /\ refresh.pc = "idle"
    /\ refresh' = [pc |-> "resolved", newer |-> SeenNewer]
    /\ parses' = ParsesAfterRefresh
    /\ UNCHANGED << fileVars, target, probe, w, rpc, classified, progress,
                    disk, cu, behaviour >>

\* the caller of refreshAllFiles has taken the resolution
RefreshSettled ==
    /\ Interleavable
    /\ NoReactionDue
    /\ refresh.pc = "resolved"
    /\ refresh' = IdleRefresh
    /\ UNCHANGED << fileVars, target, parses, probe, w, rpc, classified, progress,
                    disk, cu, behaviour >>

\* a loaded file is written anew on disk
FileChangedOnDisk(filePath, memMap) ==
    /\ Interleavable
    /\ disk[filePath].exists
    /\ disk[filePath].mtime < MaxMtime
    /\ disk' = [disk EXCEPT ![filePath] =
                  [exists |-> TRUE, mtime |-> @.mtime + 1, memMap |-> memMap]]
    /\ UNCHANGED << fileVars, target, parses, probe, w, rpc, classified, progress,
                    cu, behaviour, refresh >>

\* a loaded file is deleted from disk
FileDeletedFromDisk(filePath) ==
    /\ Interleavable
    /\ disk[filePath].exists
    /\ disk' = [disk EXCEPT ![filePath].exists = FALSE]
    /\ UNCHANGED << fileVars, target, parses, probe, w, rpc, classified, progress,
                    cu, behaviour, refresh >>

\* ------------------------------------------------------------------------
\* write()
\* ------------------------------------------------------------------------

AppState == [ file |-> [memMaps |-> memMaps], target |-> target ]

\* fileActions.js:433-441: every stat callback of the check has run and
\* one of them threw: its promise never settles, and neither the .then
\* nor the .catch of that write() will ever run.
Hung(i) ==
    /\ w[i].pc = "checkUpToDateFiles"
    /\ cu[i].pc = "stat"
    /\ cu[i].outstanding = {}

\* No write() that can still take a step is followed as invocation i.
Free(i) == w[i].pc = "idle" \/ Hung(i)

\* jprog.js:329-343: getState, the device check, canWrite.  write() has
\* no test for a write() under way: the call is followed as the first
\* invocation that is free.
WriteCanWrite(i) ==
    /\ Interleavable
    /\ Free(i)
    /\ \A j \in Writes : j < i => ~ Free(j)
    /\ target.serialNumber # 0
    /\ target.pageSize # 0
    /\ w' = [w EXCEPT ![i] =
                [ pc |-> "canWrite", verdict |-> canWrite(AppState),
                  memMaps |-> memMaps, target |-> target, pages |-> EmptyMap ]]
    /\ cu' = [cu EXCEPT ![i] = CheckDone(i)]
    /\ UNCHANGED << fileVars, target, parses, probe, rpc, classified, progress,
                    disk, behaviour, refresh >>

\* A gate that lets every verdict through
GateIgnored(verdict) == TRUE

\* jprog.js:343-352: return when canWrite is not true, else wait for
\* checkUpToDateFiles
GateOpen(verdict) == verdict = "true"

WriteGate(i) ==
    /\ w[i].pc = "canWrite"
    /\ w' = IF GateOpen(w[i].verdict)
            THEN [w EXCEPT ![i].pc = "checkUpToDateFiles"]
            ELSE [w EXCEPT ![i] = IdleWrite]
    /\ cu' = IF GateOpen(w[i].verdict)
             THEN [cu EXCEPT ![i] = checkUpToDateFiles(i)]
             ELSE cu
    /\ UNCHANGED << fileVars, target, parses, probe, rpc, classified, progress,
                    disk, behaviour, refresh >>

\* The app state as it is when the files are known to be up to date.
StateAfterTheCheck(i) == AppState

\* jprog.js:329, 353-362: the appState the .then callback reads is the
\* const of write(), taken before canWrite.
WriteAppState(i) ==
    [ file |-> [memMaps |-> w[i].memMaps], target |-> w[i].target ]

\* jprog.js:352-377: checkUpToDateFiles resolved; the pages are built
\* from the appState of the closure, WRITE_PROGRESS_START is dispatched
\* and writeHex calls nrfjprog.program.
WriteProgram(i) ==
    /\ Interleavable
    /\ w[i].pc = "checkUpToDateFiles"
    /\ cu[i].pc \in {"off", "resolved"}
    /\ w' = [w EXCEPT ![i].pc = "program", ![i].pages = Pages(WriteAppState(i))]
    /\ progress' = [progress EXCEPT !.started = TRUE]
    /\ UNCHANGED << fileVars, target, parses, probe, rpc, classified, reloadVars >>

\* jprog.js:378: checkUpToDateFiles rejected, .catch(() => {})
WriteCancelled(i) ==
    /\ Interleavable
    /\ w[i].pc = "checkUpToDateFiles"
    /\ cu[i].pc \in {"off", "rejected"}
    /\ w' = [w EXCEPT ![i] = IdleWrite]
    /\ cu' = [cu EXCEPT ![i] = CheckDone(i)]
    /\ UNCHANGED << fileVars, target, parses, probe, rpc, classified, progress,
                    disk, behaviour, refresh >>

\* jprog.js:260-277, 398-412: the finish callback of nrfjprog.program and
\* of nrfjprog.recover: with an error it logs and returns, else it
\* dispatches WRITE_PROGRESS_FINISHED.
AfterFinish(err) == IF err THEN progress.started ELSE FALSE

\* jprog.js:260-277: the finish callback of nrfjprog.program
ProgramFinished(i, err) ==
    /\ Interleavable
    /\ w[i].pc = "program"
    /\ w' = [w EXCEPT ![i] = IdleWrite]
    /\ cu' = [cu EXCEPT ![i] = CheckDone(i)]
    /\ progress' = [progress EXCEPT !.started = AfterFinish(err)]
    /\ UNCHANGED << fileVars, target, parses, probe, rpc, classified,
                    disk, behaviour, refresh >>

\* jprog.js:383-397 recover(): the device check, WRITE_PROGRESS_START and
\* the call of nrfjprog.recover
Recover ==
    /\ Interleavable
    /\ NoReactionDue
    /\ progress.recover < MaxRecovers
    /\ target.serialNumber # 0
    /\ progress' = [ started |-> TRUE, recover |-> progress.recover + 1 ]
    /\ UNCHANGED << fileVars, target, parses, probe, w, rpc, classified, reloadVars >>

\* jprog.js:398-412: the finish callback of nrfjprog.recover
RecoverFinished(err) ==
    /\ Interleavable
    /\ NoReactionDue
    /\ progress.recover > 0
    /\ progress' = [ started |-> AfterFinish(err), recover |-> progress.recover - 1 ]
    /\ UNCHANGED << fileVars, target, parses, probe, w, rpc, classified, reloadVars >>

\* one parseOneFile call in flight for each path, one logDeviceInfo
\* chain and one write() under way (SpecProbe draws MaxWrites); the
\* devkit that is read again is the same devkit, with the same pages
\* (SpecProbe draws another); the probe programs without an error, which
\* changes progress alone (SpecProbe draws both outcomes)
Next ==
    \/ \E p \in Paths : parses[p] = NoParse /\ ParseOneFile(p)
    \/ \E p \in Paths : \E c \in BagToSet(parses[p]) : ParseOneFileError(p, c)
    \/ \E p \in Paths : \E c \in BagToSet(parses[p]) : \E m \in FileImages(p) :
          ParseOneFileRead(p, c, m)
    \/ \E p \in Paths : RemoveFile(p)
    \/ CloseFiles
    \/ DispatchUpdateFileRegions
    \/ probe = NoProbe /\ LogDeviceInfo
    \/ \E ps \in PageSizes : target.pageSize \in {0, ps} /\ TargetSizeKnown(ps)
    \/ \E f \in FlashReads : \E u \in UicrReads : TargetContentsKnown(f, u)
    \/ ProbeError
    \/ WriteCanWrite(1)
    \/ \E i \in Writes : WriteGate(i)
    \/ \E i \in Writes : WriteProgram(i)
    \/ \E i \in Writes : WriteCancelled(i)
    \/ \E i \in Writes : ProgramFinished(i, FALSE)

Spec == Init /\ [][Next]_vars

\* ------------------------------------------------------------------------
\* Properties of canWrite and write()
\* ------------------------------------------------------------------------

UicrRange == uicrAddr..(uicrAddr + uicrSize - 1)

\* The target map holds 0xFF at every address of the configuration page:
\* it holds a byte at each of them, and each byte it holds there is 0xFF.
UicrBlank(tgt) ==
    /\ tgt.memMap.isMemoryMap
    /\ UicrRange \subseteq Addrs(tgt.memMap.blocks)
    /\ \A k \in DOMAIN tgt.memMap.blocks :
          \A i \in DOMAIN tgt.memMap.blocks[k] :
             (k + i - 1) \in UicrRange => tgt.memMap.blocks[k][i] = padByte

\* The addresses some loaded file defines.
FileAddrs(fileMemMaps) ==
    UNION { Addrs(fileMemMaps[i][2]) : i \in DOMAIN fileMemMaps }

\* The byte of the last file of the sequence that defines address a.
LastWriterByte(fileMemMaps, a) ==
    LET defining == { i \in DOMAIN fileMemMaps :
                        ByteAt(fileMemMaps[i][2], a) # NoByte }
    IN  IF defining = {} THEN NoByte
        ELSE ByteAt(fileMemMaps[MaxOf(defining)][2], a)

\* The app state write() holds in its closure.
ClosureState(wr) == [ file |-> [memMaps |-> w[wr].memMaps], target |-> w[wr].target ]

\* C1: whenever the target's map holds 0xFF at all 0x400 addresses from
\* 0x10001000, canWrite returns true, whatever the loaded files define.
C1_BlankUicrAlwaysWritable ==
    \A wr \in Writes :
    (w[wr].pc = "canWrite" /\ UicrBlank(w[wr].target)) => w[wr].verdict = "true"

\* canWrite said true on a blank target while two loaded files define
\* different bytes at one address of the page.
C1_Witness ==
    \E wr \in Writes :
    /\ w[wr].pc = "canWrite"
    /\ UicrBlank(w[wr].target)
    /\ w[wr].verdict = "true"
    /\ \E a \in FileAddrs(w[wr].memMaps) \cap UicrRange :
         \E i, j \in DOMAIN w[wr].memMaps :
            /\ ByteAt(w[wr].memMaps[i][2], a) # NoByte
            /\ ByteAt(w[wr].memMaps[j][2], a) # NoByte
            /\ ByteAt(w[wr].memMaps[i][2], a) # ByteAt(w[wr].memMaps[j][2], a)

\* C2: on a target whose configuration page is not all 0xFF, canWrite
\* returns true exactly when every byte the flattened files define in
\* [0x10001000, 0x10001400) is in the target map at the same address with
\* the same value.
C2_NonBlankWritableIffUicrMatches ==
    \A wr \in Writes :
    (w[wr].pc = "canWrite" /\ w[wr].target.memMap.isMemoryMap /\ ~ UicrBlank(w[wr].target))
    => ( w[wr].verdict = "true"
         <=> \A a \in FileAddrs(w[wr].memMaps) \cap UicrRange :
                ByteAt(w[wr].target.memMap.blocks, a) = LastWriterByte(w[wr].memMaps, a) )

\* canWrite said true on a read, non-blank target for files that define
\* bytes in the page and a byte right above it.
C2_Witness ==
    \E wr \in Writes :
    /\ w[wr].pc = "canWrite"
    /\ ~ UicrBlank(w[wr].target)
    /\ uicrAddr \in DOMAIN w[wr].target.memMap.blocks
    /\ w[wr].verdict = "true"
    /\ FileAddrs(w[wr].memMaps) \cap UicrRange # {}
    /\ uicrAddr + uicrSize \in FileAddrs(w[wr].memMaps)

\* C3: write() goes on to checkUpToDateFiles, WRITE_PROGRESS_START and
\* nrfjprog.program only after canWrite returned true for the app state of
\* its closure; a write whose canWrite was not true ends there.
C3_NoWriteWithoutCanWrite ==
    \A wr \in Writes :
    /\ w[wr].pc \in {"checkUpToDateFiles", "program"}
         => (w[wr].verdict = "true" /\ canWrite(ClosureState(wr)) = "true")
    /\ w[wr].pc = "program" => w[wr].pages = Pages(ClosureState(wr))

\* canWrite returned false for a selected, read device.
C3_Witness ==
    \E wr \in Writes :
    /\ w[wr].pc = "canWrite"
    /\ w[wr].verdict = "false"
    /\ uicrAddr \in DOMAIN w[wr].target.memMap.blocks

\* C4: the pages programmed on a target whose configuration page is not
\* all 0xFF hold no byte in [0x10001000, 0x10001400).
C4_NonBlankPayloadSkipsUicr ==
    \A wr \in Writes :
    (w[wr].pc = "program" /\ ~ UicrBlank(w[wr].target))
    => \A k \in DOMAIN w[wr].pages :
          k + Len(w[wr].pages[k]) <= uicrAddr \/ k >= uicrAddr + uicrSize

\* write() programs a non-blank target from files that define bytes in
\* the page.
C4_Witness ==
    \E wr \in Writes :
    /\ w[wr].pc = "program"
    /\ ~ UicrBlank(w[wr].target)
    /\ FileAddrs(w[wr].memMaps) \cap UicrRange # {}
    /\ w[wr].pages # EmptyMap

C7_LastLoadedFileWins ==
    \A wr \in Writes :
    /\ Addrs(Flattened(memMaps)) = FileAddrs(memMaps)
    /\ \A a \in FileAddrs(memMaps) :
          ByteAt(Flattened(memMaps), a) = LastWriterByte(memMaps, a)
    /\ w[wr].pc = "program" =>
          LET kept == IF UicrBlank(w[wr].target)
                      THEN FileAddrs(w[wr].memMaps)
                      ELSE { a \in FileAddrs(w[wr].memMaps) : a < uicrAddr }
          IN  \A a \in kept : ByteAt(w[wr].pages, a) = LastWriterByte(w[wr].memMaps, a)

\* Pages are programmed from two files that define different bytes at one
\* address, and hold the byte of the later one.
C7_Witness ==
    \E wr \in Writes :
    /\ w[wr].pc = "program"
    /\ Len(w[wr].memMaps) = 2
    /\ \E a \in Addrs(w[wr].memMaps[1][2]) \cap Addrs(w[wr].memMaps[2][2]) :
          /\ ByteAt(w[wr].memMaps[1][2], a) # ByteAt(w[wr].memMaps[2][2], a)
          /\ ByteAt(w[wr].pages, a) = ByteAt(w[wr].memMaps[2][2], a)

\* C14: the pages write() programs are built from exactly the file maps
\* and the target map canWrite was evaluated on: every byte of the pages
\* is the last-writer byte of those file maps or padding, every byte of
\* those maps that the target's configuration page allows is in the
\* pages, and canWrite's condition holds of those maps and that target,
\* whatever was loaded, removed or read while the up-to-date check was
\* pending.
C14_VerdictAndPayloadShareASnapshot ==
    \A wr \in Writes :
    w[wr].pc = "program"
    => /\ w[wr].verdict = "true"
       /\ \/ UicrBlank(w[wr].target)
          \/ \A a \in FileAddrs(w[wr].memMaps) \cap UicrRange :
                ByteAt(w[wr].target.memMap.blocks, a) = LastWriterByte(w[wr].memMaps, a)
       /\ LET defined == FileAddrs(w[wr].memMaps)
          IN  \A k \in DOMAIN w[wr].pages : \A n \in 1..Len(w[wr].pages[k]) :
                 w[wr].pages[k][n] = IF k + n - 1 \in defined
                                 THEN LastWriterByte(w[wr].memMaps, k + n - 1)
                                 ELSE padByte
       /\ LET kept == IF UicrBlank(w[wr].target)
                      THEN FileAddrs(w[wr].memMaps)
                      ELSE { a \in FileAddrs(w[wr].memMaps) : a < uicrAddr }
          IN  \A a \in kept : ByteAt(w[wr].pages, a) # NoByte

\* Pages are being programmed while the state holds other files and
\* another target map than the write started with, which would give
\* other pages.
C14_Witness ==
    \E wr \in Writes :
    /\ w[wr].pc = "program"
    /\ memMaps # w[wr].memMaps
    /\ target.memMap # w[wr].target.memMap
    /\ w[wr].pages # EmptyMap
    /\ Pages(AppState) # w[wr].pages

\* ------------------------------------------------------------------------
\* updateFileRegions step by step, on the region lists a classifier may
\* hand to FILE_REGIONS_KNOWN: up to MaxRegions page-sized regions at
\* ascending addresses, with any names.
\* ------------------------------------------------------------------------

MaxRegions == 3

\* 0x1000, 0x26000, 0x27000, 0x70000, 0x71000, 0x72000, 0x73000, 0x7F000
RegionStarts == {4096, 155648, 159744, 458752, 462848, 466944, 471040, 520192}

RegionLists ==
    UNION { { [ i \in 1..Len(SortedSeq(S)) |->
                  Region(naming[SortedSeq(S)[i]], SortedSeq(S)[i], 4096) ]
              : naming \in [S -> RegionNames] }
            : S \in { T \in SUBSET RegionStarts : Cardinality(T) <= MaxRegions } }

\* The target's regions: a SoftDevice that ends at 0x253C8 or at 0x24A24
\* (fileActions.js:118-125), a bootloader at 0x70000.
TargetRegionLists ==
    LET sd1 == Region("SOFTDEVICE", 4096, 152520 - 4096)
        sd2 == Region("SOFTDEVICE", 4096, 150052 - 4096)
        bl == Region("BOOTLOADER", 458752, 4096)
    IN  { <<>>, <<sd1>>, <<sd2>>, <<bl>>, <<sd1, bl>>, <<sd2, bl>> }

\* fileActions.js:246, 267: FILE_REGIONS_KNOWN has stored the classifier's
\* list; the target is a read nRF52 (512 KiB of flash in 4 KiB pages).
InitRegions ==
    /\ loaded = <<>>
    /\ memMaps = <<>>
    /\ classified \in RegionLists
    /\ regions = classified
    /\ detectedRegionNames = {}
    /\ \E tr \in TargetRegionLists :
          target = [ InitialTarget(MemoryMap(EmptyMap)) EXCEPT
                       !.serialNumber = 1, !.pageSize = 4096,
                       !.regions = tr,
                       !.deviceInfo = [romSize |-> 524288, pageSize |-> 4096] ]
    /\ parses = [p \in Paths |-> NoParse]
    /\ probe = NoProbe
    /\ w = [i \in Writes |-> IdleWrite]
    /\ rpc = "FILE_REGIONS_KNOWN"
    /\ disk = <<>>
    /\ cu = [i \in Writes |-> OpenCheck]
    /\ behaviour = "unset"
    /\ refresh = IdleRefresh
    /\ progress = IdleProgress

\* fileActions.js:268 dispatch(updateFileBlRegion())
UpdateFileBlRegion ==
    /\ rpc = "FILE_REGIONS_KNOWN"
    /\ regions' = updateFileBlRegion(regions, target.deviceInfo)
    /\ rpc' = "updateFileBlRegion"
    /\ UNCHANGED << loaded, memMaps, detectedRegionNames, target, parses,
                    probe, w, classified, progress, reloadVars >>

\* fileActions.js:269 dispatch(updateFileAppRegions())
UpdateFileAppRegions ==
    /\ rpc = "updateFileBlRegion"
    /\ LET updated == updateFileAppRegions(regions, target.regions, target.deviceInfo)
       IN  /\ regions' = updated.regions
           /\ detectedRegionNames' = updated.detectedRegionNames
    /\ rpc' = "updateFileAppRegions"
    /\ UNCHANGED << loaded, memMaps, target, parses, probe, w, classified, progress, reloadVars >>

NextRegions ==
    \/ UpdateFileBlRegion
    \/ UpdateFileAppRegions

SpecRegions == InitRegions /\ [][NextRegions]_vars

\* ------------------------------------------------------------------------
\* Properties of updateFileAppRegions and updateFileBlRegion
\* ------------------------------------------------------------------------

HasName(list, name) == \E i \in 1..Len(list) : list[i].name = name

\* The end address of the target's SoftDevice region
TargetSoftDeviceEnd ==
    LET sd == FindIndex(target.regions, LAMBDA r : r.name = "SOFTDEVICE")
    IN  target.regions[sd].startAddress + target.regions[sd].regionSize

\* The least multiple of the page size that is not below address e
NextPageBoundary(e) ==
    LET ps == target.deviceInfo.pageSize
    IN  MinOf({ m * ps : m \in (e \div ps)..((e \div ps) + 1) } \ (0..(e - 1)))

\* The boundary at which the Application is looked for in list: the next
\* page boundary above the SoftDevice if a region starts there, else one
\* page further if a region starts there, else Undefined.
ApplicationBoundary(list) ==
    LET b1 == NextPageBoundary(TargetSoftDeviceEnd)
        b2 == b1 + target.deviceInfo.pageSize
    IN  IF \E i \in 1..Len(list) : list[i].startAddress = b1 THEN b1
        ELSE IF \E i \in 1..Len(list) : list[i].startAddress = b2 THEN b2
        ELSE Undefined

\* C8: when no file region is SOFTDEVICE and the target has a SOFTDEVICE
\* region ending at E, updateFileAppRegions names APPLICATION the file
\* region that starts at E rounded up to a page boundary, or else the one
\* that starts one page further, and no other region; when no file region
\* starts at either boundary no region gets the name.
C8_ApplicationInference ==
    [][ ( /\ rpc = "updateFileBlRegion"
          /\ rpc' = "updateFileAppRegions"
          /\ ~ HasName(regions, "SOFTDEVICE")
          /\ HasName(target.regions, "SOFTDEVICE") )
        => LET boundary == ApplicationBoundary(regions)
           IN  /\ boundary # Undefined
                     => \E j \in 1..Len(regions') :
                           /\ regions'[j].startAddress = boundary
                           /\ regions'[j].name = "APPLICATION"
               /\ \A j \in 1..Len(regions') :
                     regions'[j].name = "APPLICATION"
                     => \/ regions'[j].startAddress = boundary
                        \/ \E i \in 1..Len(regions) :
                              /\ regions[i].startAddress = regions'[j].startAddress
                              /\ regions[i].name = "APPLICATION" ]_vars

\* The target's SoftDevice ends at 0x24A24, no file region starts at
\* 0x25000, and the unnamed file region at 0x26000 became the Application.
C8_Witness ==
    /\ rpc = "updateFileAppRegions"
    /\ ~ HasName(classified, "SOFTDEVICE")
    /\ HasName(target.regions, "SOFTDEVICE")
    /\ TargetSoftDeviceEnd = 150052
    /\ \E i \in 1..Len(classified) :
          classified[i].startAddress = 155648 /\ classified[i].name = "NONE"
    /\ \E j \in 1..Len(regions) :
          regions[j].startAddress = 155648 /\ regions[j].name = "APPLICATION"

\* C9: when neither the file regions nor the target regions hold a
\* SOFTDEVICE, no file region is named APPLICATION after
\* updateFileAppRegions unless it starts at 0x1000: every such region, not
\* only the first.
C9_NoApplicationWithoutSoftDevice ==
    ( /\ rpc = "updateFileAppRegions"
      /\ ~ HasName(classified, "SOFTDEVICE")
      /\ ~ HasName(target.regions, "SOFTDEVICE") )
    => \A j \in 1..Len(regions) :
          regions[j].name = "APPLICATION"
          => regions[j].startAddress = softDeviceMagicStart

\* C10: when the file regions hold a BOOTLOADER region starting at S and
\* NONE regions that start above S and end below the ROM size,
\* updateFileBlRegion leaves none of those NONE regions in the list, and
\* the BOOTLOADER region starts at S with size (end of the last of them)
\* - S.
C10_BootloaderCoalescing ==
    ( rpc = "updateFileBlRegion" /\ HasName(classified, "BOOTLOADER") )
    => LET bl == classified[FindIndex(classified, LAMBDA r : r.name = "BOOTLOADER")]
           gaps == { i \in 1..Len(classified) :
                       /\ classified[i].name = "NONE"
                       /\ classified[i].startAddress > bl.startAddress
                       /\ classified[i].startAddress + classified[i].regionSize
                             < target.deviceInfo.romSize }
           lastEnd == classified[MaxOf(gaps)].startAddress
                        + classified[MaxOf(gaps)].regionSize
       IN  gaps # {}
           => /\ \E j \in 1..Len(regions) :
                    /\ regions[j].name = "BOOTLOADER"
                    /\ regions[j].startAddress = bl.startAddress
                    /\ regions[j].regionSize = lastEnd - bl.startAddress
              /\ \A i \in gaps : \A j \in 1..Len(regions) :
                    regions[j] # classified[i]

\* Bootloader [0x70000, 0x71000) with NONE regions [0x71000, 0x72000) and
\* [0x73000, 0x74000) under a ROM size of 0x80000 became the bootloader
\* region [0x70000, 0x74000).
C10_Witness ==
    /\ rpc = "updateFileBlRegion"
    /\ target.deviceInfo.romSize = 524288
    /\ classified = << Region("BOOTLOADER", 458752, 4096),
                       Region("NONE", 462848, 4096),
                       Region("NONE", 471040, 4096) >>
    /\ regions = << Region("BOOTLOADER", 458752, 16384) >>

\* The start addresses of the APPLICATION regions of a list
ApplicationStarts(list) ==
    { list[i].startAddress : i \in { j \in 1..Len(list) : list[j].name = "APPLICATION" } }

RegionEnd(r) == r.startAddress + r.regionSize

\* C11: when exactly one file region is APPLICATION, starting at A, and
\* the target's bootloader starts at B, updateFileAppRegions folds the
\* NONE regions that start above A and below B into it: they leave the
\* list and the APPLICATION region's size becomes (end of the union) - A;
\* the NONE regions that start below A stay in the list and have no part
\* in the size.
C11_ApplicationCoalescing ==
    [][ ( /\ rpc = "updateFileBlRegion"
          /\ rpc' = "updateFileAppRegions"
          /\ HasName(target.regions, "BOOTLOADER")
          /\ Cardinality(ApplicationStarts(regions)) = 1
          /\ ApplicationStarts(regions') = ApplicationStarts(regions) )
        => LET app == regions[FindIndex(regions, LAMBDA r : r.name = "APPLICATION")]
               A == app.startAddress
               B == target.regions[FindIndex(target.regions,
                        LAMBDA r : r.name = "BOOTLOADER")].startAddress
               folded == { i \in 1..Len(regions) :
                             /\ regions[i].name = "NONE"
                             /\ regions[i].startAddress > A
                             /\ regions[i].startAddress < B }
               below == { i \in 1..Len(regions) :
                            /\ regions[i].name = "NONE"
                            /\ regions[i].startAddress < A }
               unionEnd == MaxOf({ RegionEnd(app) }
                                 \cup { RegionEnd(regions[i]) : i \in folded })
           IN  /\ \E j \in 1..Len(regions') :
                     /\ regions'[j].name = "APPLICATION"
                     /\ regions'[j].startAddress = A
                     /\ regions'[j].regionSize = unionEnd - A
               /\ \A i \in folded : \A j \in 1..Len(regions') :
                     regions'[j] # regions[i]
               /\ \A i \in below : \E j \in 1..Len(regions') :
                     regions'[j] = regions[i] ]_vars

\* Two regions share an address
Overlapping(r, s) ==
    Max2(r.startAddress, s.startAddress) < Min2(RegionEnd(r), RegionEnd(s))

NonOverlapping(list) ==
    \A i, j \in 1..Len(list) : i # j => ~ Overlapping(list[i], list[j])

\* C12: when the classifier's region list is pairwise non-overlapping,
\* the region list the state holds after updateFileRegions is pairwise
\* non-overlapping.
C12_RegionsStayDisjoint ==
    ( rpc = "updateFileAppRegions" /\ NonOverlapping(classified) )
    => NonOverlapping(regions)

\* C13: when updateFileRegions has finished, detectedRegionNames is
\* exactly the set of the names APPLICATION, SOFTDEVICE and BOOTLOADER
\* that occur in the region list of the state.
C13_DetectedNamesAreAProjection ==
    rpc = "updateFileAppRegions"
    => detectedRegionNames
         = { n \in {"APPLICATION", "SOFTDEVICE", "BOOTLOADER"} : HasName(regions, n) }

\* The Application was inferred above the target's SoftDevice and a NONE
\* region was folded into it, next to a bootloader: the names reported are
\* those of the list after the labelling and the merge.
C13_Witness ==
    /\ rpc = "updateFileAppRegions"
    /\ ~ HasName(classified, "APPLICATION")
    /\ Len(regions) < Len(classified)
    /\ detectedRegionNames = {"APPLICATION", "BOOTLOADER"}

\* ------------------------------------------------------------------------
\* write(), checkUpToDateFiles and refreshAllFiles on loaded files that
\* change on disk
\* ------------------------------------------------------------------------

\* The files were loaded as they are on disk, in this order, and a devkit
\* with pages of 4 bytes was selected and read.
InitReload ==
    \E files \in { <<"a.hex">>, <<"a.hex", "b.hex">> } :
    \E image \in [ Paths -> UNION { FileImages(p) : p \in Paths } ] :
    \E f \in FlashReads : \E u \in UicrReads :
       /\ \A p \in Paths : image[p] \in FileImages(p)
       /\ memMaps = [ i \in 1..Len(files) |-> << files[i], image[files[i]] >> ]
       /\ loaded = [ p \in { files[i] : i \in 1..Len(files) } |->
                       [memMap |-> image[p], loadTime |-> LoadTime] ]
       /\ disk = [ p \in Paths |->
                     [exists |-> TRUE, mtime |-> 0, memMap |-> image[p]] ]
       /\ LET contents == getDeviceMemMap(f, uicrAddr, u)
              tgt == [ InitialTarget(MemoryMap(EmptyMap)) EXCEPT
                         !.serialNumber = 1, !.pageSize = 4,
                         !.memMap = contents.memMap,
                         !.regions = contents.regions,
                         !.deviceInfo = [romSize |-> 524288, pageSize |-> 4] ]
              updated == updateFileRegions(
                  [ i \in 1..Len(files) |-> << files[i], image[files[i]] >> ], tgt)
          IN  /\ target = tgt
              /\ regions = updated.regions
              /\ detectedRegionNames = updated.detectedRegionNames
       /\ parses = [p \in Paths |-> NoParse]
       /\ probe = NoProbe
       /\ w = [i \in Writes |-> IdleWrite]
       /\ rpc = "off"
       /\ classified = <<>>
       /\ cu = [i \in Writes |-> IdleCheck]
       /\ behaviour \in {"unset", "ignore", "reload"}
       /\ refresh = IdleRefresh
       /\ progress = IdleProgress

\* one write() under way and a probe that programs without an error, as
\* in Next
NextReload ==
    \/ WriteCanWrite(1)
    \/ \E i \in Writes : WriteGate(i)
    \/ \E i \in Writes : \E p \in Paths : StatCallback(i, p)
    \/ \E i \in Writes : \E button \in 0..2 : \E doNotAskAgain \in BOOLEAN :
          DialogButton(i, button, doNotAskAgain)
    \/ \E i \in Writes : WriteProgram(i)
    \/ \E i \in Writes : WriteCancelled(i)
    \/ \E i \in Writes : ProgramFinished(i, FALSE)
    \/ RefreshAllFiles
    \/ RefreshSettled
    \/ \E p \in DOMAIN loaded : \E m \in FileImages(p) : FileChangedOnDisk(p, m)
    \/ \E p \in DOMAIN loaded : FileDeletedFromDisk(p)

SpecReload == InitReload /\ [][NextReload]_vars

\* C15: the promise of checkUpToDateFiles settles for every outcome of
\* the stat calls: once the callback of every stat call has run, the
\* promise is resolved, rejected or waiting for the user's answer, also
\* when a loaded file is gone from disk.
C15_CheckSettlesOnceTheStatsAreIn ==
    \A wr \in Writes :
    cu[wr].pc = "stat" => cu[wr].outstanding # {}

\* C16: when the promise of refreshAllFiles resolves, the entry of every
\* loaded file that was newer on disk holds the memory map parsed from
\* the file on disk and a loadTime not older than its mtime.
C16_RefreshReloadsChangedFiles ==
    refresh.pc = "resolved"
    => \A p \in DOMAIN refresh.newer :
          /\ p \in DOMAIN loaded
          /\ loaded[p].memMap = refresh.newer[p].memMap
          /\ loaded[p].loadTime >= refresh.newer[p].mtime

\* C17: when checkUpToDateFiles reloaded the files that changed on disk,
\* the pages write() programs hold, at every address that only a changed
\* file defines and that the target's configuration page allows, the byte
\* of the file as it is on disk.
C17_PayloadUsesReloadedFiles ==
    \A wr \in Writes :
    w[wr].pc = "program"
    => \A p \in DOMAIN cu[wr].newer :
          \A a \in Addrs(cu[wr].newer[p].memMap) :
             ( /\ \A i \in DOMAIN w[wr].memMaps :
                     w[wr].memMaps[i][1] # p => ByteAt(w[wr].memMaps[i][2], a) = NoByte
               /\ (UicrBlank(w[wr].target) \/ a < uicrAddr) )
             => ByteAt(w[wr].pages, a) = ByteAt(cu[wr].newer[p].memMap, a)

\* ------------------------------------------------------------------------
\* The file actions on their own, with up to MaxPending parseOneFile calls
\* of a path in flight
\* ------------------------------------------------------------------------

NextFiles ==
    \/ \E p \in Paths : BagCardinality(parses[p]) < MaxPending /\ ParseOneFile(p)
    \/ \E p \in Paths : \E c \in BagToSet(parses[p]) : ParseOneFileError(p, c)
    \/ \E p \in Paths : \E c \in BagToSet(parses[p]) : \E m \in FileImages(p) :
          ParseOneFileRead(p, c, m)
    \/ \E p \in Paths : RemoveFile(p)
    \/ CloseFiles
    \/ DispatchUpdateFileRegions

SpecFiles == Init /\ [][NextFiles]_vars

\* the file paths of state.memMaps
MemMapPaths(fileMemMaps) == { fileMemMaps[i][1] : i \in DOMAIN fileMemMaps }

\* C18: when parseOneFile was dispatched for several files before a read
\* completed, the read callback that loads one of them leaves every file
\* that is loaded by then in state.loaded and in state.memMaps, so that
\* after the last callback all of them are there, in every order of the
\* callbacks.
C18_NoLostFileOnConcurrentLoads ==
    [][ \A p \in Paths :
          ( parses'[p] # parses[p] /\ loaded' # loaded /\ p \in DOMAIN loaded' )
          => /\ DOMAIN loaded \subseteq DOMAIN loaded'
             /\ MemMapPaths(memMaps) \subseteq MemMapPaths(memMaps') ]_vars

\* C19: a file that is not in state.loaded, removed by removeFile or
\* closed by closeFiles, comes into state.loaded or state.memMaps again
\* only by the read callback of a parseOneFile of its own, never by the
\* read callback of another file.
C19_RemovedFileStaysRemoved ==
    [][ \A q \in Paths :
          ( /\ q \notin DOMAIN loaded
            /\ q \in (DOMAIN loaded') \cup MemMapPaths(memMaps') )
          => parses'[q] # parses[q] ]_vars

\* C20: in every reachable state the keys of state.loaded are the file
\* paths of state.memMaps, and no two entries of state.memMaps have the
\* same file path.
C20_LoadedMatchesMemMaps ==
    /\ DOMAIN loaded = MemMapPaths(memMaps)
    /\ \A i, j \in DOMAIN memMaps : memMaps[i][1] = memMaps[j][1] => i = j

\* Two files are loaded while two calls for one path are still in flight,
\* one of them from before the other file was loaded.
C20_Witness ==
    /\ Len(memMaps) = 2
    /\ \E p \in Paths :
          /\ BagCardinality(parses[p]) = 2
          /\ \E c \in BagToSet(parses[p]) : DOMAIN c.loaded # DOMAIN loaded

\* ------------------------------------------------------------------------
\* write() and recover() with the outcomes of the probe's operations, from
\* the selection of the device on
\* ------------------------------------------------------------------------

NextProbe ==
    \/ probe = NoProbe /\ LogDeviceInfo
    \/ \E ps \in PageSizes : TargetSizeKnown(ps)
    \/ \E f \in FlashReads : \E u \in UicrReads : TargetContentsKnown(f, u)
    \/ ProbeError
    \/ \E i \in Writes : WriteCanWrite(i)
    \/ \E i \in Writes : WriteGate(i)
    \/ \E i \in Writes : WriteProgram(i)
    \/ \E i \in Writes : WriteCancelled(i)
    \/ \E i \in Writes : \E err \in BOOLEAN : ProgramFinished(i, err)
    \/ Recover
    \/ \E err \in BOOLEAN : RecoverFinished(err)

SpecProbe == Init /\ [][NextProbe]_vars

\* The probe has no operation under way: no pages are being programmed
\* and no recover() is waiting for its finish callback.
ProbeIdle ==
    (\A wr \in Writes : w[wr].pc # "program") /\ progress.recover = 0

\* C21: every WRITE_PROGRESS_START of write() and recover() is followed by
\* a WRITE_PROGRESS_FINISHED, for a successful operation and for one that
\* reports an error: once the finish callbacks of the probe's operations
\* have run, no WRITE_PROGRESS_START is left without its
\* WRITE_PROGRESS_FINISHED.
C21_StartIsFollowedByFinished == ProbeIdle => ~ progress.started

\* C22: when the user picks 'Cancel' in the files-changed dialog the write
\* is abandoned: from the Cancel to the end of that write() no step
\* dispatches WRITE_PROGRESS_START, none calls the probe's program
\* operation, and the loaded files of the state and the reads under way
\* stay as they are.
C22_CancelAbandonsTheWrite ==
    [][ \A wr \in Writes :
        (cu[wr].button = 2 \/ cu'[wr].button = 2)
        => /\ w'[wr].pc \in {"checkUpToDateFiles", "idle"}
           /\ progress' = progress
           /\ loaded' = loaded
           /\ memMaps' = memMaps
           /\ parses' = parses ]_vars

\* The user has picked 'Cancel' in the dialog about files that changed
\* on disk, and write() is about to take the rejection.
C22_Witness ==
    \E wr \in Writes :
    /\ cu[wr].button = 2
    /\ cu[wr].pc = "rejected"
    /\ cu[wr].filenames # {}
    /\ w[wr].pc = "checkUpToDateFiles"

\* C23: the persisted 'behaviour-when-files-not-up-to-date' records the
\* user's own choice: it becomes 'reload' only by a dialog answered with
\* 'Reload all files and proceed', 'ignore' only by one answered with
\* 'Use old version', and a dialog the user cancelled never sets it.
C23_BehaviourRecordsTheChoice ==
    [][ behaviour' # behaviour
        => \E wr \in Writes :
              \/ cu'[wr].button = 1 /\ behaviour' = "reload"
              \/ cu'[wr].button = 0 /\ behaviour' = "ignore" ]_vars

\* C24: when write() programs a target whose configuration page is not
\* all 0xFF, only [0x10001000, 0x10001400) is taken out: every byte of the
\* paginated flattened file image at an address below or above that range
\* is in the pages with its value.
C24_NonBlankPayloadKeepsTheRest ==
    \A wr \in Writes :
    (w[wr].pc = "program" /\ ~ UicrBlank(w[wr].target))
    => LET image == paginate(Flattened(w[wr].memMaps), w[wr].target.pageSize)
       IN  \A a \in Addrs(image) \ UicrRange :
              ByteAt(w[wr].pages, a) = ByteAt(image, a)

\* C25: bootloader coalescing changes only what it merges: a NONE region
\* that does not both start above the bootloader's start address and end
\* below the ROM size is in the list after updateFileBlRegion as it was
\* before, and when no NONE region qualifies, or there is no BOOTLOADER
\* region, the list is left as it was.
C25_BootloaderCoalescingKeepsTheRest ==
    rpc = "updateFileBlRegion"
    => IF ~ HasName(classified, "BOOTLOADER") THEN regions = classified
       ELSE LET bl == classified[FindIndex(classified,
                                           LAMBDA r : r.name = "BOOTLOADER")]
                gaps == { i \in 1..Len(classified) :
                            /\ classified[i].name = "NONE"
                            /\ classified[i].startAddress > bl.startAddress
                            /\ RegionEnd(classified[i]) < target.deviceInfo.romSize }
            IN  /\ gaps = {} => regions = classified
                /\ \A i \in 1..Len(classified) :
                      (classified[i].name = "NONE" /\ i \notin gaps)
                      => \E j \in 1..Len(regions) : regions[j] = classified[i]

====
